---- MODULE Spec2Model ----
(***************************************************************************)
(* Content library page of the study-buddy dashboard: the list fetch with  *)
(* its retry chain (fetchSlides), the optimistic delete (deleteSlide) and  *)
(* the upload form (FileUpload.handleUpload), over a remote table "slides" *)
(* and a blob bucket "content".                                            *)
(*                                                                         *)
(* Execution model: one JavaScript event loop.  Every action below is one  *)
(* run-to-completion piece of a handler: from its start, or from the       *)
(* resolution of the remote call it awaits, up to the next await.  State   *)
(* setters called inside one piece are applied together.  A function       *)
(* called from a render sees the state of that render (its closure); the   *)
(* closure travels with the invocation and with the retry timer.           *)
(***************************************************************************)
EXTENDS Integers, Sequences, FiniteSets, TLC

VARIABLES
    supabase,          \* provider: the store client is present
    session,           \* provider: a session is present
    mounted,           \* ContentPage has mounted (its effects have run once)
    store,             \* remote table "slides": set of records
    blobs,             \* remote bucket "content": set of paths
    slides,            \* useState slides: the displayed collection (sequence)
    courses,           \* useState courses
    isLoaded,          \* useState isLoaded
    isFetchingSlides,  \* useState isFetchingSlides: the loading flag
    error,             \* useState error: the error flag (NoError = null)
    searchQuery, courseFilter, fileTypeFilter, sortOrder,   \* Filter State
    isUploading,       \* ContentPage useState isUploading: upload panel shown
    fetches,           \* fetchSlides invocations suspended at an await
    timers,            \* pending setTimeout retries of fetchSlides
    del,               \* the deleteSlide invocation
    form,              \* FileUpload state: selectedFile, title, description, courseId, isUploading
    up,                \* the handleUpload invocation
    toasts,            \* number of toast() calls per notification
    diagnosticsRuns,   \* number of runDiagnostics() calls
    chains,            \* history: per fetchSlides chain, the outcome of each attempt
    diag               \* the runDiagnostics invocation

vars == <<supabase, session, mounted, store, blobs, slides, courses, isLoaded,
          isFetchingSlides, error, searchQuery, courseFilter, fileTypeFilter,
          sortOrder, isUploading, fetches, timers, del, form, up, toasts,
          diagnosticsRuns, chains, diag>>

providerVars == <<supabase, session>>
remoteVars   == <<store, blobs>>
filterVars   == <<searchQuery, courseFilter, fileTypeFilter, sortOrder>>
uploadVars   == <<isUploading, form, up>>

(***************************************************************************)
(* Bounds of the model.                                                    *)
(***************************************************************************)
MaxChains  == 2    \* fetchSlides chains started by the page's own call sites
MaxDeletes == 1    \* deleteSlide invocations
MaxUploads == 1    \* handleUpload invocations
MaxSelects == 1    \* handleFileSelect invocations
MaxDiagnostics == 2    \* runDiagnostics invocations

(***************************************************************************)
(* Text.  A string is a sequence of pieces; String.includes(marker) is     *)
(* membership of the marker among the pieces, so the fixed prefixes the    *)
(* code prepends are spelled with the case they have in the source.        *)
(***************************************************************************)
Includes(msg, marker) == \E i \in DOMAIN msg : msg[i] = marker

FailedToFetch    == <<"TypeError: ", "Failed to fetch">>
NetworkErrorMsg  == <<"NetworkError", " when attempting to fetch resource.">>
ConnRefused      == <<"could not establish ", "connection">>
PermissionDenied == <<"permission", " denied for table slides">>
JwtExpired       == <<"JWT expired">>

\* messages the error object of a resolved remote call can carry, and the
\* message of a rejected one (the fetch underneath failed)
ErrorMessages  == {FailedToFetch, ConnRefused, PermissionDenied, JwtExpired}
ThrownMessages == {FailedToFetch}

NoError        == <<>>
DbNotAvailable == <<"Database ", "connection", " not available. Please try refreshing the page.">>
NeedLogin      == <<"You need to be logged in to view slides.">>
NetworkConnectionError == <<"Network ", "connection", " error. Please check your internet ", "connection", " and try again.">>
NoPermissionError == <<"You don't have ", "permission", " to view these slides. Please check your account.">>
FailedToLoad(errorMessage) == <<"Failed to load slides: ">> \o errorMessage

\* outcome of a remote call: resolved without error, resolved with an error
\* object, or rejected (the await throws)
Outcomes == {[kind |-> "ok", msg |-> NoError]}
            \cup {[kind |-> "error", msg |-> m] : m \in ErrorMessages}
            \cup {[kind |-> "throw", msg |-> m] : m \in ThrownMessages}

(***************************************************************************)
(* Slide records and the list query (lines 113-150).                       *)
(***************************************************************************)
Slide(i, t, c, ft, p) ==
    [id |-> i, title |-> t, description |-> <<>>, course_id |-> c, file_type |-> ft,
     file_path |-> p, created_at |-> i]

ImagePng == <<"image", "png">>
AppPdf   == <<"application", "pdf">>
TextPlain == <<"text", "plain">>

S1 == Slide(1, <<"B", "a">>, <<"c", "1">>, ImagePng,  <<"slides", 1>>)
S2 == Slide(2, <<"a", "p">>, <<"c", "2">>, AppPdf,    <<"slides", 2>>)
S3 == Slide(3, <<"Z">>,      <<"c", "1">>, TextPlain, <<>>)

InitialStores == {{S1, S2, S3}}

Lower(c) == CASE c = "A" -> "a" [] c = "B" -> "b" [] c = "P" -> "p" [] c = "Z" -> "z" [] OTHER -> c
LowerStr(s) == [i \in DOMAIN s |-> Lower(s[i])]
CharRank(c) == CASE Lower(c) = "a" -> 1 [] Lower(c) = "b" -> 2 [] Lower(c) = "p" -> 3 [] Lower(c) = "z" -> 4 [] OTHER -> 5

\* s contains q as a contiguous run
Contains(s, q) == \E k \in 0..(Len(s) - Len(q)) : SubSeq(s, k + 1, k + Len(q)) = q

\* the ILIKE operator of the store: in the pattern "%" stands for any run of
\* characters and "_" for any one character; letters match without case
RECURSIVE Like(_, _)
Like(s, pat) ==
    IF pat = <<>> THEN s = <<>>
    ELSE IF pat[1] = "%" THEN Like(s, Tail(pat)) \/ (s # <<>> /\ Like(Tail(s), pat))
    ELSE s # <<>> /\ (pat[1] = "_" \/ Lower(pat[1]) = Lower(s[1])) /\ Like(Tail(s), Tail(pat))

ILike(s, pat) == Like(s, pat)

\* .ilike("title", `%${searchQuery}%`)
TitleMatches(r, q) == ILike(r.title, <<"%">> \o q \o <<"%">>)

\* .ilike("file_type", "image/%") and .eq("file_type", "application/pdf")
IsImageType(ft) == Lower(ft[1]) = Lower("image")
IsPdfType(ft)   == ft = AppPdf

TypeMatches(r, f) ==
    IF f = "all" THEN TRUE
    ELSE IF f = "image" THEN IsImageType(r.file_type)
    ELSE IF f = "pdf" THEN IsPdfType(r.file_type)
    ELSE IF f = "other" THEN ~IsImageType(r.file_type) /\ ~IsPdfType(r.file_type)
    ELSE TRUE

Selected(st, cl) ==
    {r \in st : /\ (cl.searchQuery # <<>> => TitleMatches(r, cl.searchQuery))
                /\ (cl.courseFilter # <<>> => r.course_id = cl.courseFilter)
                /\ TypeMatches(r, cl.fileTypeFilter)}

RECURSIVE TitleLess(_, _)
TitleLess(a, b) ==
    IF a = <<>> THEN b # <<>>
    ELSE IF b = <<>> THEN FALSE
    ELSE IF CharRank(a[1]) # CharRank(b[1]) THEN CharRank(a[1]) < CharRank(b[1])
    ELSE TitleLess(Tail(a), Tail(b))

\* r comes before q under the order clause (ties fall back on the id)
Before(r, q, so) ==
    IF so = "newest" THEN r.created_at > q.created_at
    ELSE IF so = "oldest" THEN r.created_at < q.created_at
    ELSE IF so = "a-z" THEN TitleLess(r.title, q.title) \/ (~TitleLess(q.title, r.title) /\ r.id < q.id)
    ELSE IF so = "z-a" THEN TitleLess(q.title, r.title) \/ (~TitleLess(r.title, q.title) /\ r.id < q.id)
    ELSE r.id < q.id

\* the rows of rs in the order of the order clause: the k-th row has k - 1
\* rows before it
Ordered(rs, so) ==
    [k \in 1..Cardinality(rs) |->
        CHOOSE r \in rs : Cardinality({q \in rs : Before(q, r, so)}) = k - 1]

\* the rows the main query returns
Query(st, cl) == Ordered(Selected(st, cl), cl.sortOrder)

Ids(rows) == {rows[i].id : i \in DOMAIN rows}

\* [...new Set(allSlides.map(slide => slide.course_id))] (lines 194-196)
Unique(s) ==
    LET keep == {i \in DOMAIN s : \A j \in 1..(i - 1) : s[j] # s[i]}
    IN  [k \in 1..Cardinality(keep) |->
            s[CHOOSE i \in keep : Cardinality({j \in keep : j < i}) = k - 1]]

UniqueCoursesFirstOnly(st) == SubSeq(Unique([r \in DOMAIN Ordered(st, "oldest") |-> Ordered(st, "oldest")[r].course_id]), 1, 1)

UniqueCourses(st) == Unique([r \in DOMAIN Ordered(st, "oldest") |-> Ordered(st, "oldest")[r].course_id])

(***************************************************************************)
(* Notifications.                                                          *)
(***************************************************************************)
ToastTitles == {"Connection issue", "Error loading slides", "Deleting slide...",
                "Connection Error", "Slide deleted: slide and file",
                "Slide deleted: file issue", "Error deleting slide",
                "No file selected", "Title required", "Course ID required",
                "Invalid file type", "File too large", "Upload successful",
                "Upload failed", "Authentication Error", "Diagnostics Results",
                "Diagnostics Failed"}

Emit(ts, titles) == [k \in ToastTitles |-> ts[k] + Cardinality({i \in DOMAIN titles : titles[i] = k})]

(***************************************************************************)
(* The idle invocation records and the empty upload form.                  *)
(***************************************************************************)
IdleDelete ==
    [pc |-> "idle", slideId |-> 0, filePath |-> <<>>, fileDeletedSuccessfully |-> FALSE,
     retryCount |-> 0, storageError |-> FALSE, cl |-> <<>>,
     outcome |-> "none", refetchOk |-> FALSE, notice |-> <<>>, preIds |-> {},
     preCurrent |-> FALSE, idsAtReturn |-> {},
     removals |-> 0, removalsOk |-> 0, recordDeletes |-> 0, rpcs |-> 0, refetches |-> 0,
     started |-> 0,
     isDeleting |-> FALSE, isDialogOpen |-> FALSE]   \* SlideCard state (slide-card.tsx 39-40)

NoFile == [type |-> <<>>, size |-> 0]

EmptyForm ==
    [selectedFile |-> NoFile, title |-> <<>>, description |-> <<>>, courseId |-> <<>>,
     isUploading |-> FALSE]

IdleUpload ==
    [pc |-> "idle", file |-> NoFile, title |-> <<>>, description |-> <<>>, courseId |-> <<>>,
     cl |-> <<>>, live |-> FALSE, outcome |-> "none", uploads |-> 0, uploadsOk |-> 0,
     inserts |-> 0, insertsOk |-> 0, callbacks |-> 0, fetchCalls |-> 0,
     formAtReturn |-> EmptyForm, started |-> 0, attempts |-> 0, selects |-> 0]

(***************************************************************************)
(* fetchSlides (lines 69-288).                                             *)
(***************************************************************************)
\* what a fetchSlides created by the current render sees
Closure ==
    [searchQuery |-> searchQuery, courseFilter |-> courseFilter,
     fileTypeFilter |-> fileTypeFilter, sortOrder |-> sortOrder,
     isLoaded |-> isLoaded, supabase |-> supabase, session |-> session]

EntryErrorClientOnly(cl) == IF ~cl.supabase THEN DbNotAvailable ELSE NoError

\* the early returns of lines 83-98
EntryError(cl) ==
    IF ~cl.supabase THEN DbNotAvailable
    ELSE IF ~cl.session THEN NeedLogin
    ELSE NoError

maxRetries == 2

\* lines 227-230
IsNetworkError(errorMessage) ==
    \/ Includes(errorMessage, "Failed to fetch")
    \/ Includes(errorMessage, "NetworkError")
    \/ Includes(errorMessage, "connection")

\* line 232
ShouldRetryOffByOne(errorMessage, retryCount) ==
    IsNetworkError(errorMessage) /\ retryCount <= maxRetries

ShouldRetry(errorMessage, retryCount) ==
    IsNetworkError(errorMessage) /\ retryCount < maxRetries

SurfacedErrorNoPermission(errorMessage) ==
    IF Includes(errorMessage, "Failed to fetch") \/ Includes(errorMessage, "NetworkError")
    THEN NetworkConnectionError
    ELSE FailedToLoad(errorMessage)

\* lines 258-274
SurfacedError(errorMessage) ==
    IF Includes(errorMessage, "Failed to fetch") \/ Includes(errorMessage, "NetworkError")
    THEN NetworkConnectionError
    ELSE IF Includes(errorMessage, "permission") \/ Includes(errorMessage, "not allowed")
    THEN NoPermissionError
    ELSE FailedToLoad(errorMessage)

\* the message of the Error the catch block of line 209 receives
TestErrorMessage(o) ==
    IF o.kind = "error" THEN <<"Connection test failed: ">> \o o.msg ELSE o.msg

MainErrorMessage(o) ==
    IF o.kind = "error"
    THEN <<"Database query failed: ">> \o (IF o.msg = <<>> THEN <<"Unknown database error">> ELSE o.msg)
    ELSE o.msg

\* the effect of lines 643-647: a render whose error differs from the last
\* render's and is set calls runDiagnostics
EffectRuns(before, after) == IF after # NoError /\ after # before THEN 1 ELSE 0

RemoveAt(s, i) == SubSeq(s, 1, i - 1) \o SubSeq(s, i + 1, Len(s))

Invocation(cl, rc, chain, aw) ==
    [chain |-> chain, rc |-> rc, pc |-> "test", cl |-> cl, awaiter |-> aw, rows |-> <<>>]

\* history entry of one attempt: network = its error message carried a
\* network-failure marker, retried = it scheduled a retry
Attempt(rc, outcome, msg, retried, rows) ==
    [rc |-> rc, outcome |-> outcome, network |-> IsNetworkError(msg), retried |-> retried,
     rows |-> rows]

\* deleteSlide resumes when the fetchSlides() it awaits has returned
\* (lines 327-328, 439-446, 459-463)
DelOutcome(d) ==
    IF d.pc = "refetchConn" THEN "connfail"
    ELSE IF d.pc = "refetchFail" THEN "recordfail"
    ELSE "deleted"

DelResumeToastsAlwaysFile(d) ==
    IF d.pc = "refetchOk" THEN <<"Slide deleted: slide and file">> ELSE <<>>

DelResumeToasts(d) ==
    IF d.pc = "refetchOk"
    THEN IF d.fileDeletedSuccessfully THEN <<"Slide deleted: slide and file">>
                                      ELSE <<"Slide deleted: file issue">>
    ELSE <<>>

DelResumeDiagnostics(d) == IF d.pc = "refetchFail" THEN 1 ELSE 0

\* SlideCard.handleDelete after `await onDelete(...)` (slide-card.tsx lines
\* 49-56): setIsDialogOpen(false) when the promise resolved, the dialog is
\* left open when it rejected; the finally resets isDeleting.  deleteSlide
\* handles every failure itself, so its promise always resolves.
DialogAfterDelete(rejected) == rejected

\* history: how the invocation ended, what it finally announced and what the
\* page displayed when it returned
DelResumed(d, refetchOk, shown) ==
    [d EXCEPT !.pc = "done", !.outcome = DelOutcome(d), !.refetchOk = refetchOk,
              !.notice = DelResumeToasts(d), !.idsAtReturn = Ids(shown),
              !.isDialogOpen = DialogAfterDelete(FALSE), !.isDeleting = FALSE]

\* fetchSlides() called n times in one handler, each call starting a chain:
\* lines 79-105 up to the first await
StartChains(cls, aw) ==
    LET n  == Len(cls)
        ok == EntryError(cls[1]) = NoError
    IN  /\ isFetchingSlides' = ok    \* lines 79, 88, 96
        /\ error' = EntryError(cls[n])
        /\ fetches' = IF ok
                      THEN fetches \o [k \in 1..n |->
                               Invocation(cls[k], 0, Len(chains) + k, IF k = n THEN aw ELSE "none")]
                      ELSE fetches
        /\ chains' = chains \o [k \in 1..n |->
                         IF ok THEN <<>>
                         ELSE <<Attempt(0, "precondition", EntryError(cls[k]), FALSE, <<>>)>>]
        /\ UNCHANGED diag

\* the finally of lines 285-287: setIsFetchingSlides(false)
FinallyMissing(loading) == loading

Finally(loading) == FALSE

\* the invocation returns, and the caller that awaits it resumes
Return(i, newSlides, newCourses, newIsLoaded, newError, newTimers, titles, direct, entry) ==
    LET f == fetches[i]
        resumed == f.awaiter = "delete"
    IN  /\ fetches' = RemoveAt(fetches, i)
        /\ timers' = newTimers
        /\ isFetchingSlides' = Finally(isFetchingSlides)
        /\ slides' = newSlides
        /\ courses' = newCourses
        /\ isLoaded' = newIsLoaded
        /\ error' = newError
        /\ chains' = [chains EXCEPT ![f.chain] = Append(@, entry)]
        /\ del' = IF resumed THEN DelResumed(del, entry.outcome = "ok", newSlides) ELSE del
        /\ toasts' = Emit(toasts, titles \o (IF resumed THEN DelResumeToasts(del) ELSE <<>>))
        /\ diagnosticsRuns' = diagnosticsRuns + direct + EffectRuns(error, newError)
                              + (IF resumed THEN DelResumeDiagnostics(del) ELSE 0)
        /\ UNCHANGED <<providerVars, mounted, remoteVars, filterVars, uploadVars, diag>>

FailSilentRetry(i, errorMessage) ==
    LET f == fetches[i]
    IN  IF ShouldRetry(errorMessage, f.rc)
        THEN Return(i, <<>>, courses, isLoaded, error,
                    timers \cup {[chain |-> f.chain, rc |-> f.rc + 1, cl |-> f.cl]},
                    <<>>, 0,
                    Attempt(f.rc, "fail", errorMessage, TRUE, <<>>))
        ELSE Return(i, <<>>, courses, isLoaded, SurfacedError(errorMessage), timers,
                    <<"Error loading slides">>, 1,
                    Attempt(f.rc, "fail", errorMessage, FALSE, <<>>))

\* the catch block of lines 209-284
Fail(i, errorMessage) ==
    LET f == fetches[i]
    IN  IF ShouldRetry(errorMessage, f.rc)
        THEN Return(i, <<>>, courses, isLoaded, error,
                    timers \cup {[chain |-> f.chain, rc |-> f.rc + 1, cl |-> f.cl]},
                    <<"Connection issue">>, 0,
                    Attempt(f.rc, "fail", errorMessage, TRUE, <<>>))
        ELSE Return(i, <<>>, courses, isLoaded, SurfacedError(errorMessage), timers,
                    <<"Error loading slides">>, 1,
                    Attempt(f.rc, "fail", errorMessage, FALSE, <<>>))

\* the test query of lines 103-110 resolves
TestQueryResponse(i, o) ==
    /\ fetches[i].pc = "test"
    /\ IF o.kind = "ok"
       THEN /\ fetches' = [fetches EXCEPT ![i].pc = "main"]
            /\ UNCHANGED <<providerVars, mounted, remoteVars, filterVars, uploadVars, slides,
                           courses, isLoaded, isFetchingSlides, error, timers, del, toasts,
                           diagnosticsRuns, chains, diag>>
       ELSE Fail(i, TestErrorMessage(o))

\* lines 171-177
SetSlidesSkipped(slideData) == slides

SetSlides(slideData) == slideData

QueryFiltersCurrent(f) == Closure

\* the filters the query of lines 113-147 was built from: those of the render
\* whose fetchSlides was called
QueryFilters(f) == f.cl

\* the main query of lines 150-177 resolves
MainQueryResponse(i, o) ==
    LET f == fetches[i]
        rows == Query(store, QueryFilters(f))
    IN  /\ f.pc = "main"
        /\ IF o.kind # "ok" THEN Fail(i, MainErrorMessage(o))
           ELSE IF ~f.cl.isLoaded
           THEN /\ fetches' = [fetches EXCEPT ![i].pc = "courses", ![i].rows = rows]
                /\ slides' = SetSlides(rows)
                /\ UNCHANGED <<providerVars, mounted, remoteVars, filterVars, uploadVars,
                               courses, isLoaded, isFetchingSlides, error, timers, del, toasts,
                               diagnosticsRuns, chains, diag>>
           ELSE Return(i, SetSlides(rows), courses, isLoaded, error, timers, <<>>, 0,
                       Attempt(f.rc, "ok", NoError, FALSE, rows))

CourseQueryFailurePropagates(i, o) == Fail(i, o.msg)

\* the course query failed: lines 187-191 log and return, the catch of lines
\* 200-203 logs
CourseQueryFailure(i, o) ==
    Return(i, slides, courses, isLoaded, error, timers, <<>>, 0,
           Attempt(fetches[i].rc, "ok", NoError, FALSE, fetches[i].rows))

\* the course query of lines 182-203 resolves
CourseQueryResponse(i, o) ==
    LET f == fetches[i]
    IN  /\ f.pc = "courses"
        /\ IF o.kind = "ok"
           THEN Return(i, slides, UniqueCourses(store), TRUE, error, timers, <<>>, 0,
                       Attempt(f.rc, "ok", NoError, FALSE, f.rows))
           ELSE CourseQueryFailure(i, o)

\* the timer of lines 249-251 fires: fetchSlides(nextRetryCount) of the same closure
RetryTimer(t) ==
    /\ t \in timers
    /\ timers' = timers \ {t}
    /\ isFetchingSlides' = TRUE
    /\ error' = NoError
    /\ fetches' = Append(fetches, Invocation(t.cl, t.rc, t.chain, "none"))
    /\ UNCHANGED <<providerVars, mounted, remoteVars, filterVars, uploadVars, slides, courses,
                   isLoaded, del, toasts, diagnosticsRuns, chains, diag>>

(***************************************************************************)
(* Call sites of fetchSlides in ContentPage.                               *)
(***************************************************************************)
\* the page renders its content, not the fallback (line 650; the provider's
\* isLoading is over once it has supplied its values)
Rendered == mounted /\ session

\* first render: both effects run (lines 56-67)
Mount ==
    /\ ~mounted
    /\ mounted' = TRUE
    /\ IF session
       THEN /\ StartChains(<<Closure, Closure>>, "none")
            /\ diagnosticsRuns' = diagnosticsRuns + EffectRuns(error, error')
       ELSE UNCHANGED <<isFetchingSlides, error, fetches, chains, diagnosticsRuns, diag>>
    /\ UNCHANGED <<providerVars, remoteVars, filterVars, uploadVars, slides, courses, isLoaded,
                   timers, del, toasts>>

\* the provider supplies a session after the first render: the effect of
\* lines 56-60 runs again
SessionArrives ==
    /\ mounted /\ ~session
    /\ session' = TRUE
    /\ StartChains(<<[Closure EXCEPT !.session = TRUE]>>, "none")
    /\ diagnosticsRuns' = diagnosticsRuns + EffectRuns(error, error')
    /\ UNCHANGED <<supabase, mounted, remoteVars, filterVars, uploadVars, slides, courses,
                   isLoaded, timers, del, toasts>>

\* Enter in the search box (line 700)
SearchKeyDownEnter ==
    /\ Rendered
    /\ Len(chains) < MaxChains
    /\ StartChains(<<Closure>>, "none")
    /\ diagnosticsRuns' = diagnosticsRuns + EffectRuns(error, error')
    /\ UNCHANGED <<providerVars, mounted, remoteVars, filterVars, uploadVars, slides, courses,
                   isLoaded, timers, del, toasts>>

\* a filter control changes the Filter State.  The handler of a Select
\* (lines 706-709, 724-727, 742-745) calls setX(value) and then fetchSlides()
\* of the render it belongs to, whose closure still holds the old filters;
\* the re-render then runs the effect of lines 63-67, which calls
\* fetchSlides() with the new filters.  The search box (line 699) only sets
\* the state, so the effect's call is the only one.
FilterChange(cl, stale) ==
    /\ Rendered
    /\ Len(chains) + (IF stale THEN 2 ELSE 1) <= MaxChains + 1
    /\ cl # Closure
    /\ searchQuery' = cl.searchQuery /\ courseFilter' = cl.courseFilter
    /\ fileTypeFilter' = cl.fileTypeFilter /\ sortOrder' = cl.sortOrder
    /\ StartChains(IF stale THEN <<Closure, cl>> ELSE <<cl>>, "none")
    /\ diagnosticsRuns' = diagnosticsRuns + EffectRuns(error, error')
    /\ UNCHANGED <<providerVars, mounted, remoteVars, uploadVars, slides, courses, isLoaded,
                   timers, del, toasts>>

\* lines 699, 704-709, 722-727, 740-745
SearchChange(value)       == FilterChange([Closure EXCEPT !.searchQuery = value], FALSE)
FileTypeChange(value)     == FilterChange([Closure EXCEPT !.fileTypeFilter = value], TRUE)
SortOrderChange(value)    == FilterChange([Closure EXCEPT !.sortOrder = value], TRUE)
CourseFilterChange(value) ==
    FilterChange([Closure EXCEPT !.courseFilter = IF value = <<"all">> THEN <<>> ELSE value], TRUE)

\* the items of the course Select (lines 750-757)
CourseItems == {<<"all">>} \cup {courses[k] : k \in DOMAIN courses}

\* fetchSlides() called with whatever the provider supplies: the function's
\* own guards (lines 83-98) decide, not the guards of its call sites
FetchSlidesCall ==
    /\ Len(chains) < MaxChains
    /\ StartChains(<<Closure>>, "none")
    /\ diagnosticsRuns' = diagnosticsRuns + EffectRuns(error, error')
    /\ UNCHANGED <<providerVars, mounted, remoteVars, filterVars, uploadVars, slides, courses,
                   isLoaded, timers, del, toasts>>

(***************************************************************************)
(* deleteSlide (lines 295-489).  The catch of lines 465-488 has no action: *)
(* every statement that can throw sits in one of the inner try blocks.     *)
(***************************************************************************)
PolicyDenied == <<"violates row-level security ", "policy">>

\* outcomes of the record delete and of the fallback rpc
RecordOutcomes == Outcomes \cup {[kind |-> "error", msg |-> PolicyDenied]}

IsPermissionErrorPermissionOnly(msg) == Includes(msg, "permission")

\* lines 417-421
IsPermissionError(msg) == Includes(msg, "permission") \/ Includes(msg, "policy")

maxBlobRetriesOneMore == 3 + 1

maxBlobRetries == 3

WithoutSlideLater(rows, slideId) == rows

\* lines 301-303
WithoutSlide(rows, slideId) == SelectSeq(rows, LAMBDA r : r.id # slideId)

ProbeFailedOnlyWhenThrown(o) == o.kind = "throw"

\* lines 312-319: the test query resolved with an error object, or threw
ProbeFailed(o) == o.kind # "ok"

\* SlideCard.handleDelete calls onDelete(slide.id, slide.file_path || ""):
\* lines 297-312, up to the test query
DeleteSlide(k) ==
    /\ Rendered /\ supabase /\ ~isFetchingSlides
    /\ k \in DOMAIN slides
    /\ del.pc \in {"idle", "done"}
    /\ del.started < MaxDeletes
    /\ slides' = WithoutSlide(slides, slides[k].id)
    /\ toasts' = Emit(toasts, <<"Deleting slide...">>)
    /\ del' = [IdleDelete EXCEPT !.pc = "test", !.slideId = slides[k].id,
                                 !.filePath = slides[k].file_path, !.cl = Closure,
                                 !.preIds = Ids(slides),
                                 !.preCurrent = (slides = Query(store, Closure)),
                                 !.started = del.started + 1,
                                 !.isDeleting = TRUE, !.isDialogOpen = TRUE]
    /\ UNCHANGED <<providerVars, mounted, remoteVars, filterVars, uploadVars, courses, isLoaded,
                   isFetchingSlides, error, fetches, timers, diagnosticsRuns, chains, diag>>

DelNoRefetch(pc, titles) ==
    /\ del' = [del EXCEPT !.pc = "done", !.outcome = DelOutcome([pc |-> pc]),
                          !.idsAtReturn = Ids(slides)]
    /\ toasts' = Emit(toasts, titles)
    /\ UNCHANGED <<isFetchingSlides, error, fetches, chains, diagnosticsRuns, diag>>

\* await fetchSlides() inside deleteSlide (lines 327, 439, 459)
DelRefetch(pc, titles) ==
    /\ StartChains(<<del.cl>>, "delete")
    /\ del' = [del EXCEPT !.pc = pc, !.refetches = @ + 1]
    /\ toasts' = Emit(toasts, titles)
    /\ diagnosticsRuns' = diagnosticsRuns + EffectRuns(error, error')

\* the record delete of lines 406-410 is issued
DelIssueRecordDelete(d) == [d EXCEPT !.pc = "record", !.recordDeletes = @ + 1]

\* the connectivity guard of lines 311-329 resolves
DelTestResponse(o) ==
    /\ del.pc = "test"
    /\ IF ProbeFailed(o)
       THEN /\ DelRefetch("refetchConn", <<"Connection Error">>)
            /\ UNCHANGED <<providerVars, mounted, remoteVars, filterVars, uploadVars, slides,
                           courses, isLoaded, timers>>
       ELSE /\ del' = IF del.filePath # <<>>
                      THEN [del EXCEPT !.pc = "blob", !.removals = @ + 1]
                      ELSE DelIssueRecordDelete(del)
            /\ UNCHANGED <<providerVars, mounted, remoteVars, filterVars, uploadVars, slides,
                           courses, isLoaded, isFetchingSlides, error, fetches, timers, toasts,
                           diagnosticsRuns, chains, diag>>

\* one storage.remove of lines 346-384 resolves
DelBlobResponse(o) ==
    /\ del.pc = "blob"
    /\ IF o.kind = "ok"
       THEN /\ blobs' = blobs \ {del.filePath}
            /\ del' = DelIssueRecordDelete([del EXCEPT !.fileDeletedSuccessfully = TRUE,
                                                       !.removalsOk = @ + 1])
       ELSE /\ blobs' = blobs
            /\ del' = LET d == [del EXCEPT !.storageError = TRUE, !.retryCount = @ + 1]
                      IN  IF d.retryCount < maxBlobRetries
                          THEN [d EXCEPT !.pc = "blobWait"]
                          ELSE DelIssueRecordDelete(d)
    /\ UNCHANGED <<providerVars, mounted, store, filterVars, uploadVars, slides, courses,
                   isLoaded, isFetchingSlides, error, fetches, timers, toasts, diagnosticsRuns,
                   chains, diag>>

\* the backoff timer of lines 368-370 / 380-382 fires: next loop iteration
DelBlobTimer ==
    /\ del.pc = "blobWait"
    /\ del' = [del EXCEPT !.pc = "blob", !.removals = @ + 1]
    /\ UNCHANGED <<providerVars, mounted, remoteVars, filterVars, uploadVars, slides, courses,
                   isLoaded, isFetchingSlides, error, fetches, timers, toasts, diagnosticsRuns,
                   chains, diag>>

\* the record delete of lines 406-436 resolves
DelRecordResponse(o) ==
    /\ del.pc = "record"
    /\ blobs' = blobs
    /\ IF o.kind = "ok"
       THEN /\ store' = {r \in store : r.id # del.slideId}
            /\ DelRefetch("refetchOk", <<>>)
            /\ UNCHANGED <<providerVars, mounted, filterVars, uploadVars, slides, courses,
                           isLoaded, timers>>
       ELSE IF o.kind = "error" /\ IsPermissionError(o.msg)
       THEN /\ del' = [del EXCEPT !.pc = "rpc", !.rpcs = @ + 1]
            /\ UNCHANGED <<providerVars, mounted, store, filterVars, uploadVars, slides, courses,
                           isLoaded, isFetchingSlides, error, fetches, timers, toasts,
                           diagnosticsRuns, chains, diag>>
       ELSE /\ store' = store
            /\ DelRefetch("refetchFail", <<"Error deleting slide">>)
            /\ UNCHANGED <<providerVars, mounted, filterVars, uploadVars, slides, courses,
                           isLoaded, timers>>

\* the fallback rpc("delete_slide") of lines 425-433 resolves
DelRpcResponse(o) ==
    /\ del.pc = "rpc"
    /\ blobs' = blobs
    /\ IF o.kind = "ok"
       THEN /\ store' = {r \in store : r.id # del.slideId}
            /\ DelRefetch("refetchOk", <<>>)
       ELSE /\ store' = store
            /\ DelRefetch("refetchFail", <<"Error deleting slide">>)
    /\ UNCHANGED <<providerVars, mounted, filterVars, uploadVars, slides, courses, isLoaded,
                   timers>>

DeleteStep ==
    \/ \E o \in Outcomes : DelTestResponse(o)
    \/ \E o \in Outcomes : DelBlobResponse(o)
    \/ DelBlobTimer
    \/ \E o \in RecordOutcomes : DelRecordResponse(o)
    \/ \E o \in RecordOutcomes : DelRpcResponse(o)

(***************************************************************************)
(* FileUpload (src/components/content/file-upload.tsx) and the upload      *)
(* panel of ContentPage.                                                   *)
(***************************************************************************)
MegaByte == 1024 * 1024

File(t, sz) == [type |-> t, size |-> sz]

ImageJpeg == <<"image", "jpeg">>
ImageGif  == <<"image", "gif">>
WordDocx  == <<"application", "vnd.openxmlformats-officedocument.wordprocessingml.document">>

\* files the user can pick or drop
Files == {File(AppPdf, 2 * MegaByte), File(ImagePng, 10 * MegaByte),
          File(AppPdf, 10 * MegaByte + 1), File(AppPdf, 15 * MegaByte),
          File(WordDocx, 1 * MegaByte)}

\* texts the user can type into the title and the course id inputs
TitleInputs    == {<<>>, <<" ">>, <<"Q">>}
CourseIdInputs == {<<>>, <<" ">>, <<"c", "3">>}
DescriptionInputs == {<<>>, <<"d">>}

\* String.prototype.trim
RECURSIVE TrimLeft(_)
TrimLeft(s) == IF s # <<>> /\ s[1] = " " THEN TrimLeft(Tail(s)) ELSE s

RECURSIVE TrimRight(_)
TrimRight(s) == IF s # <<>> /\ s[Len(s)] = " " THEN TrimRight(SubSeq(s, 1, Len(s) - 1)) ELSE s

Trim(s) == TrimRight(TrimLeft(s))

\* lines 59-64
validTypes == {AppPdf, ImageJpeg, ImagePng, ImageGif}

\* line 75
TooLargeOnlyAbove15(file) == file.size > 15 * MegaByte

TooLarge(file) == file.size > 10 * MegaByte

\* which check of handleFileSelect rejects the file (lines 65-82)
FileRejection(file) ==
    IF file.type \notin validTypes THEN <<"Invalid file type">>
    ELSE IF TooLarge(file) THEN <<"File too large">>
    ELSE <<>>

\* handleFileSelect (lines 57-85), from the file input or a drop
HandleFileSelect(file) ==
    /\ Rendered /\ isUploading
    /\ up.selects < MaxSelects
    /\ form' = IF FileRejection(file) = <<>> THEN [form EXCEPT !.selectedFile = file] ELSE form
    /\ toasts' = Emit(toasts, FileRejection(file))
    /\ up' = [up EXCEPT !.selects = @ + 1]
    /\ UNCHANGED <<providerVars, mounted, remoteVars, filterVars, isUploading, slides, courses,
                   isLoaded, isFetchingSlides, error, fetches, timers, del, diagnosticsRuns,
                   chains, diag>>

\* handleRemoveFile (lines 93-98)
HandleRemoveFile ==
    /\ Rendered /\ isUploading
    /\ form.selectedFile # NoFile /\ ~form.isUploading
    /\ form' = [form EXCEPT !.selectedFile = NoFile]
    /\ UNCHANGED <<providerVars, mounted, remoteVars, filterVars, isUploading, up, slides,
                   courses, isLoaded, isFetchingSlides, error, fetches, timers, del, toasts,
                   diagnosticsRuns, chains, diag>>

\* the three inputs (lines 277-307), disabled while uploading
SetTitle(t) ==
    /\ Rendered /\ isUploading /\ ~form.isUploading
    /\ form.title # t
    /\ form' = [form EXCEPT !.title = t]
    /\ UNCHANGED <<providerVars, mounted, remoteVars, filterVars, isUploading, up, slides,
                   courses, isLoaded, isFetchingSlides, error, fetches, timers, del, toasts,
                   diagnosticsRuns, chains, diag>>

SetCourseId(c) ==
    /\ Rendered /\ isUploading /\ ~form.isUploading
    /\ form.courseId # c
    /\ form' = [form EXCEPT !.courseId = c]
    /\ UNCHANGED <<providerVars, mounted, remoteVars, filterVars, isUploading, up, slides,
                   courses, isLoaded, isFetchingSlides, error, fetches, timers, del, toasts,
                   diagnosticsRuns, chains, diag>>

SetDescription(d) ==
    /\ Rendered /\ isUploading /\ ~form.isUploading
    /\ form.description # d
    /\ form' = [form EXCEPT !.description = d]
    /\ UNCHANGED <<providerVars, mounted, remoteVars, filterVars, isUploading, up, slides,
                   courses, isLoaded, isFetchingSlides, error, fetches, timers, del, toasts,
                   diagnosticsRuns, chains, diag>>

\* the "Upload Slides" / "Cancel Upload" button of ContentPage (line 660):
\* FileUpload is mounted with fresh state and unmounted with its state
\* discarded; an upload in flight goes on without its component
ToggleUploadPanel ==
    /\ Rendered
    /\ isUploading' = ~isUploading
    /\ form' = EmptyForm
    /\ up' = [up EXCEPT !.live = FALSE]
    /\ UNCHANGED <<providerVars, mounted, remoteVars, filterVars, slides, courses, isLoaded,
                   isFetchingSlides, error, fetches, timers, del, toasts, diagnosticsRuns,
                   chains, diag>>

\* which check of handleUpload rejects the form (lines 101-126)
FormRejection(f) ==
    IF f.selectedFile = NoFile THEN <<"No file selected">>
    ELSE IF Trim(f.title) = <<>> THEN <<"Title required">>
    ELSE IF Trim(f.courseId) = <<>> THEN <<"Course ID required">>
    ELSE <<>>

\* handleUpload (lines 100-150) up to the blob upload.  The handler's own
\* checks decide; one invocation at a time, as the disabled button enforces
HandleUpload ==
    /\ Rendered /\ isUploading /\ ~form.isUploading
    /\ up.pc \in {"idle", "done"}
    /\ up.attempts < MaxUploads
    /\ toasts' = Emit(toasts, FormRejection(form))
    /\ IF FormRejection(form) # <<>>
       THEN /\ up' = [up EXCEPT !.attempts = @ + 1]
            /\ form' = form
       ELSE /\ form' = [form EXCEPT !.isUploading = TRUE]
            /\ up' = [IdleUpload EXCEPT
                         !.pc = "upload", !.file = form.selectedFile, !.title = form.title,
                         !.description = form.description, !.courseId = form.courseId,
                         !.cl = Closure, !.live = TRUE, !.uploads = 1,
                         !.started = up.started + 1, !.attempts = up.attempts + 1,
                         !.selects = up.selects]
    /\ UNCHANGED <<providerVars, mounted, remoteVars, filterVars, isUploading, slides, courses,
                   isLoaded, isFetchingSlides, error, fetches, timers, del, diagnosticsRuns,
                   chains, diag>>

\* `slides/${Date.now()}-${random}.${ext}` (lines 133-137): a fresh path
UploadPath(u) == <<"slides", 3 + u.started>>

\* the row of lines 166-176
UploadedSlide(u) ==
    [id |-> 3 + u.started, title |-> u.title, description |-> u.description,
     course_id |-> u.courseId, file_type |-> u.file.type, file_path |-> UploadPath(u),
     created_at |-> 3 + u.started]

\* the catch and finally of lines 206-214; u is the invocation so far
UploadFailed(u, outcome) ==
    /\ toasts' = Emit(toasts, <<"Upload failed">>)
    /\ form' = IF u.live THEN [form EXCEPT !.isUploading = FALSE] ELSE form
    /\ up' = [u EXCEPT !.pc = "done", !.outcome = outcome,
                       !.formAtReturn = IF u.live THEN [form EXCEPT !.isUploading = FALSE]
                                                  ELSE form]
    /\ UNCHANGED <<providerVars, mounted, filterVars, isUploading, slides, courses, isLoaded,
                   isFetchingSlides, error, fetches, timers, del, diagnosticsRuns, chains, diag>>

\* line 154: if (error) throw error; a rejected await throws by itself
BlobUploadFailedOnlyWhenThrown(o) == o.kind = "throw"

BlobUploadFailed(o) == o.kind # "ok"

\* storage.upload of lines 148-156 resolves; on success lines 158-176 issue
\* the insert
UploadResponse(o) ==
    LET u == [up EXCEPT !.uploadsOk = @ + (IF o.kind = "ok" THEN 1 ELSE 0)]
    IN  /\ up.pc = "upload"
        /\ blobs' = IF o.kind = "ok" THEN blobs \cup {UploadPath(up)} ELSE blobs
        /\ store' = store
        /\ IF BlobUploadFailed(o)
           THEN UploadFailed(u, "uploadfail")
           ELSE /\ up' = [u EXCEPT !.pc = "insert", !.inserts = @ + 1]
                /\ UNCHANGED <<providerVars, mounted, filterVars, isUploading, form, slides,
                               courses, isLoaded, isFetchingSlides, error, fetches, timers, del,
                               toasts, diagnosticsRuns, chains, diag>>

BlobsAfterFailureRolledBack(bs, path) == bs \ {path}

\* the catch of lines 206-211 shows the notification and issues no
\* storage.remove: the bucket keeps what the upload put there
BlobsAfterFailure(bs, path) == bs

\* line 178: if (dbError) throw dbError
InsertFailedOnlyWhenThrown(o) == o.kind = "throw"

InsertFailed(o) == o.kind # "ok"

\* the insert of lines 166-180 resolves; on success lines 182-205 and
\* handleUploadComplete (part_000 lines 290-293) run: the panel closes, so
\* FileUpload unmounts, and fetchSlides() of the page is called
InsertResponse(o) ==
    LET u == [up EXCEPT !.insertsOk = @ + (IF o.kind = "ok" THEN 1 ELSE 0)]
    IN  /\ up.pc = "insert"
        /\ blobs' = IF InsertFailed(o) THEN BlobsAfterFailure(blobs, UploadPath(up)) ELSE blobs
        /\ store' = IF o.kind = "ok" THEN store \cup {UploadedSlide(up)} ELSE store
        /\ IF InsertFailed(o)
           THEN UploadFailed(u, "insertfail")
           ELSE /\ toasts' = Emit(toasts, <<"Upload successful">>)
                /\ isUploading' = FALSE
                /\ StartChains(<<up.cl>>, "none")
                /\ diagnosticsRuns' = diagnosticsRuns + EffectRuns(error, error')
                /\ form' = EmptyForm
                /\ up' = [u EXCEPT !.pc = "done", !.outcome = "ok", !.live = FALSE,
                                   !.callbacks = @ + 1, !.fetchCalls = @ + 1,
                                   !.formAtReturn = EmptyForm]
                /\ UNCHANGED <<providerVars, mounted, filterVars, slides, courses, isLoaded,
                               timers, del>>

UploadStep ==
    \/ \E o \in Outcomes : UploadResponse(o)
    \/ \E o \in Outcomes : InsertResponse(o)

FormStep ==
    \/ ToggleUploadPanel
    \/ \E file \in Files : HandleFileSelect(file)
    \/ HandleRemoveFile
    \/ \E t \in TitleInputs : SetTitle(t)
    \/ \E c \in CourseIdInputs : SetCourseId(c)
    \/ \E d \in DescriptionInputs : SetDescription(d)
    \/ HandleUpload

(***************************************************************************)
(* runDiagnostics (lines 492-640).  The invocation is suspended at one of  *)
(* five awaits; each remote call resolves, resolves with an error object,  *)
(* or throws.  caught records the stages whose exception a catch clause of *)
(* the function handled, propagated that an exception left the function.   *)
(***************************************************************************)
IdleDiagnostics ==
    [pc |-> "idle", run |-> 0, connected |-> FALSE, authenticated |-> FALSE,
     rlsStatus |-> "Unknown", caught |-> {}, propagated |-> FALSE]

DiagnosticsStages == {"client", "getSession", "connection", "authStatus", "direct", "rls"}

\* the catch clause that handles an exception raised at a stage: the try of
\* line 494 encloses the whole body, the tries of lines 533 and 546 the two
\* probes
HandlerTryAfterSessionCheck(stage) ==
    CASE stage = "direct" -> "direct"
      [] stage = "rls"    -> "rls"
      [] stage \in {"client", "getSession"} -> "none"
      [] OTHER            -> "outer"

HandlerOuterOnly(stage) == "outer"

Handler(stage) ==
    CASE stage = "direct" -> "direct"
      [] stage = "rls"    -> "rls"
      [] OTHER            -> "outer"

\* lines 554-557 and 562
RlsStatus(o) ==
    CASE o = "permission" -> "Failed: No permission to delete"
      [] o = "throw"      -> "Error testing RLS"
      [] OTHER            -> "Success: Delete policy exists"

\* lines 566-630: the summary notification, and the function returns
DiagnosticsResults(d) ==
    /\ diag' = [d EXCEPT !.pc = "done"]
    /\ toasts' = Emit(toasts, <<"Diagnostics Results">>)

\* an exception raised at a stage
DiagnosticsThrow(stage) ==
    LET d == [diag EXCEPT !.caught = @ \cup {stage}]
    IN  CASE Handler(stage) = "outer" ->      \* lines 631-639
                /\ diag' = [d EXCEPT !.pc = "done"]
                /\ toasts' = Emit(toasts, <<"Diagnostics Failed">>)
          [] Handler(stage) = "direct" ->     \* lines 540-542
                /\ diag' = [d EXCEPT !.pc = "rls"]
                /\ toasts' = toasts
          [] Handler(stage) = "rls" ->        \* lines 560-563
                DiagnosticsResults([d EXCEPT !.rlsStatus = RlsStatus("throw")])
          [] OTHER ->
                /\ diag' = [diag EXCEPT !.pc = "done", !.propagated = TRUE]
                /\ toasts' = toasts

diagFrame == <<providerVars, mounted, remoteVars, slides, courses, isLoaded, isFetchingSlides,
               error, filterVars, uploadVars, fetches, timers, del, chains>>

\* runDiagnostics() (lines 284, 462, 487, 645), up to the await of line 496;
\* a null client makes supabase.auth throw a TypeError
RunDiagnostics ==
    /\ diag.pc \in {"idle", "done"}
    /\ diag.run < MaxDiagnostics
    /\ diagnosticsRuns' = diagnosticsRuns + 1
    /\ IF supabase
       THEN /\ diag' = [IdleDiagnostics EXCEPT !.pc = "getSession", !.run = diag.run + 1]
            /\ toasts' = toasts
       ELSE LET d == [IdleDiagnostics EXCEPT !.run = diag.run + 1, !.caught = {"client"}]
            IN  CASE Handler("client") = "outer" ->
                        /\ diag' = [d EXCEPT !.pc = "done"]
                        /\ toasts' = Emit(toasts, <<"Diagnostics Failed">>)
                  [] OTHER ->
                        /\ diag' = [d EXCEPT !.pc = "done", !.caught = {}, !.propagated = TRUE]
                        /\ toasts' = toasts
    /\ UNCHANGED diagFrame

\* lines 496-511
GetSessionResponse(o) ==
    /\ diag.pc = "getSession"
    /\ CASE o = "ok"    -> diag' = [diag EXCEPT !.pc = "connection"] /\ toasts' = toasts
         [] o = "error" -> /\ diag' = [diag EXCEPT !.pc = "done"]
                           /\ toasts' = Emit(toasts, <<"Authentication Error">>)
         [] OTHER       -> DiagnosticsThrow("getSession")
    /\ UNCHANGED <<diagFrame, diagnosticsRuns>>

\* lines 514-515
ConnectionResponse(o) ==
    /\ diag.pc = "connection"
    /\ CASE o = "throw" -> DiagnosticsThrow("connection")
         [] OTHER -> /\ diag' = [diag EXCEPT !.pc = "authStatus", !.connected = (o = "ok")]
                     /\ toasts' = toasts
    /\ UNCHANGED <<diagFrame, diagnosticsRuns>>

\* lines 518-534
AuthStatusResponse(o) ==
    /\ diag.pc = "authStatus"
    /\ CASE o = "throw" -> DiagnosticsThrow("authStatus")
         [] OTHER -> /\ diag' = [diag EXCEPT !.pc = "direct", !.authenticated = (o = "ok")]
                     /\ toasts' = toasts
    /\ UNCHANGED <<diagFrame, diagnosticsRuns>>

\* lines 534-551
DirectTestResponse(o) ==
    /\ diag.pc = "direct"
    /\ CASE o = "throw" -> DiagnosticsThrow("direct")
         [] OTHER -> diag' = [diag EXCEPT !.pc = "rls"] /\ toasts' = toasts
    /\ UNCHANGED <<diagFrame, diagnosticsRuns>>

\* lines 547-630
RlsTestResponse(o) ==
    /\ diag.pc = "rls"
    /\ CASE o = "throw" -> DiagnosticsThrow("rls")
         [] OTHER -> DiagnosticsResults([diag EXCEPT !.rlsStatus = RlsStatus(o)])
    /\ UNCHANGED <<diagFrame, diagnosticsRuns>>

DiagnosticsOutcomes == {"ok", "error", "throw"}
RlsOutcomes         == {"ok", "permission", "error", "throw"}

DiagnosticsStep ==
    \/ \E o \in DiagnosticsOutcomes : GetSessionResponse(o)
    \/ \E o \in DiagnosticsOutcomes : ConnectionResponse(o)
    \/ \E o \in DiagnosticsOutcomes : AuthStatusResponse(o)
    \/ \E o \in DiagnosticsOutcomes : DirectTestResponse(o)
    \/ \E o \in RlsOutcomes : RlsTestResponse(o)

(***************************************************************************)
(* Initial states.                                                         *)
(***************************************************************************)
\* the state of a freshly constructed ContentPage (lines 45-54)
Constructed ==
    /\ mounted = FALSE
    /\ slides = <<>> /\ courses = <<>> /\ isLoaded = FALSE
    /\ isFetchingSlides = FALSE /\ error = NoError
    /\ searchQuery = <<>> /\ courseFilter = <<>> /\ fileTypeFilter = "all" /\ sortOrder = "newest"
    /\ isUploading = FALSE
    /\ fetches = <<>> /\ timers = {}
    /\ del = IdleDelete /\ form = EmptyForm /\ up = IdleUpload
    /\ toasts = [k \in ToastTitles |-> 0]
    /\ diagnosticsRuns = 0 /\ chains = <<>>
    /\ diag = IdleDiagnostics

Init ==
    /\ supabase \in BOOLEAN
    /\ session \in BOOLEAN
    /\ store \in InitialStores
    /\ blobs = {r.file_path : r \in {q \in store : q.file_path # <<>>}}
    /\ Constructed

FetchStep ==
    \/ \E i \in DOMAIN fetches : \E o \in Outcomes : TestQueryResponse(i, o)
    \/ \E i \in DOMAIN fetches : \E o \in Outcomes : MainQueryResponse(i, o)
    \/ \E i \in DOMAIN fetches : \E o \in Outcomes : CourseQueryResponse(i, o)
    \/ \E t \in timers : RetryTimer(t)

Next ==
    \/ Mount
    \/ SessionArrives
    \/ SearchKeyDownEnter
    \/ FetchStep

Spec == Init /\ [][Next]_vars

\* the page after its last fetch under the filters q, c, f, so, nothing in
\* flight; isLoaded is still false when the course query failed (lines
\* 189-192, 201-203)
PageLoadedWith(q, c, f, so) ==
    /\ mounted = TRUE
    /\ searchQuery = q /\ courseFilter = c /\ fileTypeFilter = f /\ sortOrder = so
    /\ slides = Query(store, [searchQuery |-> q, courseFilter |-> c, fileTypeFilter |-> f,
                              sortOrder |-> so])
    /\ isLoaded \in BOOLEAN
    /\ courses = (IF isLoaded THEN UniqueCourses(store) ELSE <<>>)
    /\ isFetchingSlides = FALSE /\ error = NoError
    /\ fetches = <<>> /\ timers = {}
    /\ del = IdleDelete /\ up = IdleUpload
    /\ toasts = [k \in ToastTitles |-> 0]
    /\ diagnosticsRuns = 0
    /\ chains = << <<Attempt(0, "ok", NoError, FALSE, slides)>> >>
    /\ diag = IdleDiagnostics

\* the same page with the upload panel closed and its form empty
LoadedWith(q, c, f, so) ==
    /\ PageLoadedWith(q, c, f, so)
    /\ isUploading = FALSE
    /\ form = EmptyForm

Loaded == LoadedWith(<<>>, <<>>, "all", "newest")

InitLoaded ==
    /\ supabase = TRUE
    /\ session = TRUE
    /\ store \in InitialStores
    /\ blobs = {r.file_path : r \in {q \in store : q.file_path # <<>>}}
    /\ Loaded

NextDelete ==
    \/ \E k \in DOMAIN slides : DeleteSlide(k)
    \/ DeleteStep
    \/ FetchStep

SpecDelete == InitLoaded /\ [][NextDelete]_vars

\* the upload panel and handleUpload, up to the fetchSlides() that
\* handleUploadComplete calls
NextUpload ==
    \/ FormStep
    \/ UploadStep

\* the upload panel is opened on a page whose first load was complete
InitUpload == InitLoaded /\ isLoaded

SpecUpload == InitUpload /\ [][NextUpload]_vars

\* what the filter controls can hold (lines 693-760): texts typed into the
\* search box, the items of the three Select lists
SearchInputs       == {<<>>, <<"A">>, <<"p">>, <<"_">>}
CourseFilterInputs == {<<>>, <<"c", "1">>, <<"c", "2">>}
FileTypeInputs     == {"all", "pdf", "image", "other"}
SortInputs         == {"newest", "oldest", "a-z", "z-a"}

\* the list query under every filter combination: the page is at rest under
\* some filters, and fetchSlides is called again
InitQuery ==
    /\ supabase = TRUE
    /\ session = TRUE
    /\ store \in InitialStores
    /\ blobs = {r.file_path : r \in {x \in store : x.file_path # <<>>}}
    /\ \E q \in SearchInputs, c \in CourseFilterInputs, f \in FileTypeInputs, so \in SortInputs :
          LoadedWith(q, c, f, so)

NextQuery ==
    \/ SearchKeyDownEnter
    \/ FetchStep

SpecQuery == InitQuery /\ [][NextQuery]_vars

\* the filter controls of a page at rest under the default filters; the
\* store answers each query, with rows or with a refusal
FilterOutcomes == {[kind |-> "ok", msg |-> NoError], [kind |-> "error", msg |-> PermissionDenied]}

NextFilters ==
    \/ \E value \in SearchInputs : SearchChange(value)
    \/ \E value \in FileTypeInputs : FileTypeChange(value)
    \/ \E value \in SortInputs : SortOrderChange(value)
    \/ \E value \in CourseItems : CourseFilterChange(value)
    \/ \E i \in DOMAIN fetches : \E o \in FilterOutcomes : TestQueryResponse(i, o)
    \/ \E i \in DOMAIN fetches : \E o \in FilterOutcomes : MainQueryResponse(i, o)
    \/ \E i \in DOMAIN fetches : \E o \in FilterOutcomes : CourseQueryResponse(i, o)

SpecFilters == InitLoaded /\ [][NextFilters]_vars

\* an upload from a filled form, followed by the fetchSlides() that
\* handleUploadComplete calls: the page is at rest, the panel is open and the
\* user has picked a file and typed a title and a course id
InitUploadFilled ==
    /\ supabase = TRUE
    /\ session = TRUE
    /\ store \in InitialStores
    /\ blobs = {r.file_path : r \in {x \in store : x.file_path # <<>>}}
    /\ PageLoadedWith(<<>>, <<>>, "all", "newest")
    /\ isUploading = TRUE
    /\ form \in {[selectedFile |-> file, title |-> t, description |-> <<>>, courseId |-> c,
                   isUploading |-> FALSE] :
                     file \in {x \in Files : FileRejection(x) = <<>>},
                     t \in TitleInputs, c \in CourseIdInputs}

NextUploadFetch ==
    \/ HandleUpload
    \/ UploadStep
    \/ FetchStep

SpecUploadFetch == InitUploadFilled /\ [][NextUploadFetch]_vars

\* runDiagnostics on its own, with and without a store client
NextDiagnostics ==
    \/ RunDiagnostics
    \/ DiagnosticsStep

SpecDiagnostics == Init /\ [][NextDiagnostics]_vars

\* every remote call of fetchSlides eventually returns, every retry timer fires
FairSpec == Spec /\ WF_vars(FetchStep)

NextContract ==
    \/ FetchSlidesCall
    \/ FetchStep

SpecContract == Init /\ [][NextContract]_vars

(***************************************************************************)
(* Properties.                                                             *)
(***************************************************************************)
Quiescent == fetches = <<>> /\ timers = {}

\* the first two attempts of the chain failed with a network-failure marker
\* and the third succeeded
TwoTransientThenOk(log) ==
    /\ Len(log) = 3
    /\ log[1].outcome = "fail" /\ log[1].network
    /\ log[2].outcome = "fail" /\ log[2].network
    /\ log[3].outcome = "ok"

\* C1: when the only chain started so far failed twice with a transient
\* network error and succeeded on its third attempt, the displayed collection
\* is the third attempt's result, the error flag is unset and exactly two
\* "retry pending" notifications were emitted.
C1_TwoRetriesThenSuccess ==
    (Len(chains) = 1 /\ Quiescent /\ TwoTransientThenOk(chains[1]))
        => /\ slides = chains[1][3].rows
           /\ error = NoError
           /\ toasts["Connection issue"] = 2

C1_Witness ==
    /\ Len(chains) = 1 /\ Quiescent /\ TwoTransientThenOk(chains[1])
    /\ slides # <<>>

\* C2: a retry is scheduled only by an attempt whose message carries a
\* network-failure marker and whose retryCount is below 2; a chain makes at
\* most 3 attempts, retryCount never exceeds 2, and after the third attempt
\* nothing of the chain is left running or scheduled.
C2_RetryBudget ==
    /\ \A c \in DOMAIN chains :
          /\ Len(chains[c]) <= 3
          /\ \A k \in DOMAIN chains[c] :
                /\ chains[c][k].rc = k - 1
                /\ chains[c][k].retried =>
                      (chains[c][k].outcome = "fail" /\ chains[c][k].network /\ chains[c][k].rc < 2)
          /\ Len(chains[c]) = 3 =>
                (/\ \A t \in timers : t.chain # c
                 /\ \A i \in DOMAIN fetches : fetches[i].chain # c)
    /\ \A t \in timers : t.rc <= 2
    /\ \A i \in DOMAIN fetches : fetches[i].rc <= 2

C2_Witness ==
    \E c \in DOMAIN chains :
        /\ Len(chains[c]) = 3
        /\ chains[c][3].outcome = "fail" /\ chains[c][3].network /\ ~chains[c][3].retried
        /\ \E d \in DOMAIN chains :
              Len(chains[d]) = 1 /\ chains[d][1].outcome = "fail" /\ ~chains[d][1].network

\* C3: the loading flag is false whenever no fetchSlides invocation is
\* executing, and, remote calls returning eventually, it never stays true.
C3_LoadingFlagReset ==
    /\ [](fetches = <<>> => ~isFetchingSlides)
    /\ (isFetchingSlides ~> ~isFetchingSlides)

C3_Witness ==
    /\ fetches = <<>> /\ ~isFetchingSlides /\ timers # {}
    /\ \E c \in DOMAIN chains : Len(chains[c]) = 1 /\ chains[c][1].outcome = "fail" /\ ~chains[c][1].retried

\* what the claims about the upload form call a valid input
AcceptableFile(file) ==
    /\ file.type \in {<<"application", "pdf">>, <<"image", "jpeg">>, <<"image", "png">>,
                      <<"image", "gif">>}
    /\ file.size <= 10 * 1024 * 1024

Filled(text) == \E i \in DOMAIN text : text[i] # " "

ValidationToasts(ts) ==
    ts["No file selected"] + ts["Title required"] + ts["Course ID required"]
    + ts["Invalid file type"] + ts["File too large"]

\* C7: no blob upload and no metadata insert is issued for an absent file,
\* a file of another type or above 10MB, or a blank title or course id: the
\* selected file is always an acceptable one, an invocation that issues
\* requests carries valid inputs, and a rejected attempt changes nothing but
\* the count of validation notifications, by one.
C7_InvalidNeverUploaded ==
    [][/\ form'.selectedFile # NoFile => AcceptableFile(form'.selectedFile)
       /\ (up'.started > up.started \/ up'.uploads > up.uploads \/ up'.inserts > up.inserts)
             => (AcceptableFile(up'.file) /\ Filled(up'.title) /\ Filled(up'.courseId))
       /\ (/\ up'.attempts > up.attempts
           /\ ~(form.selectedFile # NoFile /\ Filled(form.title) /\ Filled(form.courseId)))
             => /\ up'.started = up.started /\ up'.pc = up.pc
                /\ store' = store /\ blobs' = blobs /\ form' = form
                /\ ValidationToasts(toasts') = ValidationToasts(toasts) + 1
                /\ toasts'["Upload failed"] = toasts["Upload failed"]
                /\ toasts'["Upload successful"] = toasts["Upload successful"]
       /\ (up'.selects > up.selects /\ form'.selectedFile = form.selectedFile /\ toasts' # toasts)
             => /\ up'.started = up.started /\ up'.pc = up.pc
                /\ store' = store /\ blobs' = blobs
                /\ ValidationToasts(toasts') = ValidationToasts(toasts) + 1]_vars

C7_Witness ==
    /\ up.selects = 1 /\ toasts["File too large"] = 1 /\ form.selectedFile = NoFile
    /\ Filled(form.title) /\ Filled(form.courseId)
    /\ up.attempts = 1 /\ toasts["No file selected"] = 1
    /\ up.started = 0 /\ up.uploads = 0 /\ up.inserts = 0

\* C8: an invocation of handleUpload with valid inputs issues exactly one
\* blob upload and at most one metadata insert, the insert only after the
\* blob upload succeeded and none when it failed; every uploaded record has
\* its blob.
C8_OneUploadThenOneInsert ==
    /\ up.pc # "idle" => up.uploads = 1
    /\ up.inserts <= 1
    /\ up.inserts = 1 => up.uploadsOk = 1
    /\ (up.pc \in {"insert", "done"} /\ up.uploadsOk = 1) => up.inserts = 1
    /\ (up.pc = "done" /\ up.uploadsOk = 0) => up.inserts = 0
    /\ \A r \in store : r.id > 3 => r.file_path \in blobs

C8_Witness ==
    /\ up.pc = "done" /\ up.outcome = "ok"
    /\ up.uploads = 1 /\ up.inserts = 1
    /\ \E r \in store : r.id > 3

\* C9: when handleUpload ends after a successful blob upload and insert, the
\* completion callback has been invoked once, the form is cleared, the panel
\* is closed and the page has called fetchSlides once; when it ends after a
\* failure the callback has not been invoked and no fetchSlides was called.
C9_CallbackOnSuccessOnly ==
    [][(up'.pc = "done" /\ up.pc # "done")
          => IF up'.uploadsOk = 1 /\ up'.insertsOk = 1
             THEN /\ up'.callbacks = 1
                  /\ Len(chains') = Len(chains) + 1
                  /\ form'.selectedFile = NoFile /\ form'.title = <<>>
                  /\ form'.description = <<>> /\ form'.courseId = <<>>
                  /\ ~isUploading'
             ELSE /\ up'.callbacks = 0
                  /\ chains' = chains]_vars

C9_Witness ==
    /\ up.pc = "done" /\ up.outcome = "ok" /\ up.callbacks = 1 /\ up.fetchCalls = 1
    /\ up.description # <<>>
    /\ form = EmptyForm /\ ~isUploading
    /\ Len(chains) = 2

\* C10: a fetchSlides call without store client or without session issues no
\* query, schedules no retry, sets the error flag to the corresponding
\* message and leaves the loading flag false.
C10_MissingClientOrSession ==
    [][(Len(chains') > Len(chains) /\ (~supabase \/ ~session))
          => /\ fetches' = fetches
             /\ timers' = timers
             /\ error' = (IF ~supabase THEN DbNotAvailable ELSE NeedLogin)
             /\ ~isFetchingSlides']_vars

C10_Witness ==
    /\ supabase /\ ~session
    /\ Len(chains) > 0
    /\ error = NeedLogin /\ ~isFetchingSlides /\ Quiescent

DelDone(outcomes) == del.pc = "done" /\ del.outcome \in outcomes

C5_DeletedNotice ==
    DelDone({"deleted"})
        => /\ del.slideId \notin del.idsAtReturn
           /\ (del.notice = <<"Slide deleted: slide and file">>) <=> (del.removalsOk > 0)
           /\ (del.notice = <<"Slide deleted: file issue">>) <=> (del.removalsOk = 0)
           /\ (del.removals = 3 /\ del.removalsOk = 0)
                 => del.notice = <<"Slide deleted: file issue">>

C5_Witness ==
    /\ DelDone({"deleted"})
    /\ del.removals = 3 /\ del.removalsOk = 0
    /\ del.notice = <<"Slide deleted: file issue">>
    /\ del.refetchOk

Classified(msg) ==
    IF Includes(msg, "Failed to fetch") \/ Includes(msg, "NetworkError") THEN "network"
    ELSE IF Includes(msg, "permission") \/ Includes(msg, "not allowed") THEN "permission"
    ELSE "generic"

ErrorClass(e) ==
    IF e = NetworkConnectionError THEN "network"
    ELSE IF e = NoPermissionError THEN "permission"
    ELSE IF e # NoError /\ e[1] = "Failed to load slides: " THEN "generic"
    ELSE "none"

\* C11: a failing attempt that schedules no retry sets the error flag to the
\* message of the class of its error (network, else permission, else
\* generic), emits the "Error loading slides" notification and triggers
\* Diagnostics.
C11_SurfacedErrorClassified ==
    [][\A i \in DOMAIN fetches : \A o \in Outcomes :
          ((\/ (TestQueryResponse(i, o) /\ o.kind # "ok")
            \/ (MainQueryResponse(i, o) /\ o.kind # "ok")) /\ timers' = timers)
             => /\ ErrorClass(error') =
                      Classified(IF fetches[i].pc = "test" THEN TestErrorMessage(o)
                                                           ELSE MainErrorMessage(o))
                /\ toasts'["Error loading slides"] = toasts["Error loading slides"] + 1
                /\ diagnosticsRuns' > diagnosticsRuns]_vars

C11_Witness ==
    /\ ErrorClass(error) = "permission"
    /\ toasts["Error loading slides"] = 2
    /\ diagnosticsRuns >= 2
    /\ \E c \in DOMAIN chains : Len(chains[c]) = 3 /\ ~chains[c][3].retried
                                /\ chains[c][3].outcome = "fail"

\* the composition rules of the filters, as the claim words them
TitleContains(r, q) == Contains(LowerStr(r.title), LowerStr(q))

MimeSatisfies(ft, f) ==
    CASE f = "image" -> ft[1] = "image"
      [] f = "pdf"   -> ft = <<"application", "pdf">>
      [] f = "other" -> ft[1] # "image" /\ ft # <<"application", "pdf">>
      [] OTHER       -> TRUE

Declared(st, cl) ==
    {r \in st : /\ (cl.searchQuery # <<>> => TitleContains(r, cl.searchQuery))
                /\ (cl.courseFilter # <<>> => r.course_id = cl.courseFilter)
                /\ MimeSatisfies(r.file_type, cl.fileTypeFilter)}

\* C12: the rows the query of a fetchSlides invocation returns are exactly
\* the records whose title contains the search text without regard to case,
\* whose course id equals the course filter and whose MIME type satisfies
\* the type filter.
C12_QueryMatchesFilters ==
    \A i \in DOMAIN fetches :
        Ids(Query(store, fetches[i].cl)) = {r.id : r \in Declared(store, fetches[i].cl)}

\* C13: a runDiagnostics invocation never lets an exception leave the
\* function, whichever stage throws (getSession, the connectivity check, the
\* auth check, the direct read probe, the delete-policy probe) and also when
\* the store client is missing: every exception is handled by one of its
\* catch clauses, and a finished run has shown one notification.
C13_DiagnosticsNeverPropagates ==
    /\ ~diag.propagated
    /\ (~supabase /\ diag.run > 0) => (diag.pc = "done" /\ diag.caught = {"client"})
    /\ diag.pc \in {"idle", "done"} =>
          toasts["Diagnostics Results"] + toasts["Diagnostics Failed"]
              + toasts["Authentication Error"] = diag.run

C13_Witness ==
    /\ diag.pc = "done" /\ diag.run = 2 /\ ~diag.propagated
    /\ diag.caught = {"direct", "rls"}
    /\ toasts["Diagnostics Failed"] = 1 /\ toasts["Diagnostics Results"] = 1

\* the rows a fetchSlides invocation asked for: the records its own filters
\* select, in its own order
OwnRows(f) == Ordered(Selected(store, f.cl), f.cl.sortOrder)

\* C14: overlapping fetchSlides invocations are not ordered by issue time.
\* Whenever the list query of an invocation succeeds, the displayed
\* collection becomes that invocation's own result, whatever filters the
\* page holds by then and whichever invocations were issued later and have
\* already answered: the response that arrives last wins.
C14_LastResponseWins ==
    [][\A i \in DOMAIN fetches : \A o \in Outcomes :
          (MainQueryResponse(i, o) /\ o.kind = "ok") => slides' = OwnRows(fetches[i])]_vars

\* nothing is in flight, no error is shown, and the displayed collection is
\* the answer to the filters the page held before the last change, not to the
\* current ones
C14_Witness ==
    /\ fetches = <<>> /\ timers = {} /\ error = NoError /\ ~isFetchingSlides
    /\ Len(chains) = 3
    /\ fileTypeFilter = "pdf"
    /\ slides # Query(store, Closure)
    /\ slides = Query(store, [Closure EXCEPT !.fileTypeFilter = "all"])
    /\ chains[2][Len(chains[2])].outcome = "ok" /\ chains[3][Len(chains[3])].outcome = "ok"

\* position of deleteSlide in the order of its steps
DeleteRank(pc) ==
    CASE pc = "test" -> 1
      [] pc \in {"blob", "blobWait"} -> 2
      [] pc = "record" -> 3
      [] pc = "rpc" -> 4
      [] pc \in {"refetchConn", "refetchOk", "refetchFail"} -> 5
      [] OTHER -> 6

\* the remote requests of the deleteSlide invocation that have not completed
DeleteOutstanding(d, fs) ==
    (IF d.pc \in {"test", "blob", "record", "rpc"} THEN 1 ELSE 0)
        + Cardinality({i \in DOMAIN fs : fs[i].awaiter = "delete"})

\* C15: within one deleteSlide invocation the steps follow the order of the
\* state machine.  The invocation starts by removing the slide from the
\* displayed collection, with no remote request issued yet other than the
\* connectivity probe it then waits for; from there it only moves forward
\* through probe, blob removals, record deletion, fallback RPC and refetch;
\* and at every moment at most one of its remote requests is outstanding.
C15_DeleteStepsInOrder ==
    [][/\ del'.started > del.started =>
             /\ del'.slideId \notin Ids(slides')
             /\ del'.pc = "test"
             /\ del'.removals = 0 /\ del'.recordDeletes = 0 /\ del'.rpcs = 0
             /\ del'.refetches = 0
       /\ del'.started = del.started => DeleteRank(del'.pc) >= DeleteRank(del.pc)
       /\ del'.removals > del.removals => DeleteRank(del.pc) <= 2
       /\ del'.recordDeletes > del.recordDeletes => DeleteRank(del.pc) <= 2
       /\ del'.rpcs > del.rpcs => del.pc = "record"
       /\ del'.refetches > del.refetches => del.pc \in {"test", "record", "rpc"}
       /\ DeleteOutstanding(del', fetches') <= 1]_vars

C15_Witness ==
    /\ del.pc = "done" /\ del.outcome = "deleted"
    /\ del.removals = 3 /\ del.recordDeletes = 1 /\ del.rpcs = 1 /\ del.refetches = 1
    /\ del.slideId \notin Ids(slides)

\* C16: when the connectivity probe at the start of deleteSlide fails (it
\* resolves with an error object or throws), deleteSlide shows "Connection
\* Error", starts the refetch and returns when it is over: it issues no blob
\* removal, no record delete and no fallback RPC, and the remote table and
\* bucket stay as they were.
C16_ProbeFailureAborts ==
    [][/\ \A o \in Outcomes :
             (DelTestResponse(o) /\ o.kind # "ok") =>
                 /\ del'.pc = "refetchConn" /\ del'.refetches = 1
                 /\ toasts'["Connection Error"] = toasts["Connection Error"] + 1
       /\ del.pc = "refetchConn" =>
             /\ del'.pc \in {"refetchConn", "done"}
             /\ del'.pc = "done" => del'.outcome = "connfail"
       /\ del'.pc = "refetchConn" \/ (del'.pc = "done" /\ del'.outcome = "connfail") =>
             /\ del'.removals = 0 /\ del'.recordDeletes = 0 /\ del'.rpcs = 0
             /\ del'.refetches = 1
             /\ store' = store /\ blobs' = blobs]_vars

C16_Witness ==
    /\ del.pc = "done" /\ del.outcome = "connfail"
    /\ del.removals = 0 /\ del.recordDeletes = 0 /\ del.rpcs = 0 /\ del.refetches = 1
    /\ toasts["Connection Error"] = 1
    /\ del.slideId \in {r.id : r \in store}

\* C17: deleteSlide makes at most 3 blob-removal attempts per invocation,
\* none after an attempt that succeeded and none when the file path is empty,
\* and once the attempts are over (one succeeded, or all 3 failed) it has
\* issued the record deletion.
C17_BlobAttempts ==
    /\ del.removals <= 3
    /\ del.removalsOk <= 1
    /\ del.removalsOk = 1 => del.pc \notin {"blob", "blobWait"}
    /\ del.filePath = <<>> => del.removals = 0
    /\ del.pc = "blobWait" => del.removals < 3
    /\ (del.removals > 0 /\ del.pc \notin {"blob", "blobWait"}) => del.recordDeletes = 1
    /\ (del.pc \in {"record", "rpc", "refetchOk", "refetchFail"} /\ del.filePath # <<>>) =>
          (del.removalsOk = 1 \/ del.removals = 3)

C17_Witness ==
    /\ del.filePath # <<>> /\ del.removals = 3 /\ del.removalsOk = 0
    /\ del.recordDeletes = 1 /\ del.pc = "done" /\ del.outcome = "deleted"
    /\ toasts["Slide deleted: file issue"] = 1

\* C18: the fallback RPC is invoked exactly when the record delete resolved
\* with an error whose message contains "permission" or "policy", and at most
\* once per invocation; any other failure of the record delete, and any
\* failure of the fallback, shows "Error deleting slide" and goes to the
\* refetch without another delete attempt.
C18_FallbackOnPermissionOnly ==
    [][/\ \A o \in RecordOutcomes :
             DelRecordResponse(o) =>
                 /\ (del'.rpcs = del.rpcs + 1) <=>
                        (o.kind = "error" /\ (Includes(o.msg, "permission") \/ Includes(o.msg, "policy")))
                 /\ (del'.rpcs # del.rpcs + 1 /\ o.kind # "ok") =>
                        /\ del'.pc = "refetchFail" /\ del'.rpcs = del.rpcs
                        /\ toasts'["Error deleting slide"] = toasts["Error deleting slide"] + 1
       /\ \A o \in RecordOutcomes :
             (DelRpcResponse(o) /\ o.kind # "ok") =>
                 /\ del'.pc = "refetchFail" /\ del'.rpcs = del.rpcs
                 /\ toasts'["Error deleting slide"] = toasts["Error deleting slide"] + 1
       /\ del'.rpcs <= 1 /\ del'.recordDeletes <= 1
       /\ del'.rpcs > del.rpcs => del.pc = "record"]_vars

C18_Witness ==
    /\ del.pc = "done" /\ del.outcome = "recordfail"
    /\ del.recordDeletes = 1 /\ del.rpcs = 1
    /\ toasts["Error deleting slide"] = 1
    /\ del.slideId \in {r.id : r \in store}

\* the blob of the handleUpload invocation is in the bucket and no record of
\* the table refers to it
Orphaned(u, bs, st) == UploadPath(u) \in bs /\ \A r \in st : r.file_path # UploadPath(u)

\* C19: when the metadata insert fails (it resolves with an error object or
\* throws) after the blob upload has succeeded, handleUpload shows "Upload
\* failed" and the bucket is left as it was: the uploaded blob stays there and
\* no record of the table refers to it.  No step of the upload ever removes a
\* blob.
C19_OrphanedBlobAfterInsertFailure ==
    [][/\ \A o \in Outcomes :
             (InsertResponse(o) /\ o.kind # "ok") =>
                 /\ toasts'["Upload failed"] = toasts["Upload failed"] + 1
                 /\ toasts'["Upload successful"] = toasts["Upload successful"]
                 /\ up'.pc = "done" /\ up'.outcome = "insertfail"
                 /\ blobs' = blobs /\ store' = store
                 /\ Orphaned(up, blobs', store')
       /\ blobs \subseteq blobs']_vars

C19_Witness ==
    /\ up.pc = "done" /\ up.outcome = "insertfail"
    /\ up.uploadsOk = 1 /\ up.insertsOk = 0
    /\ toasts["Upload failed"] = 1
    /\ Orphaned(up, blobs, store)

\* the list query of some fetchSlides invocation has succeeded: an attempt
\* has ended well, or an invocation is past its list query
PrimarySucceeded ==
    \/ \E c \in DOMAIN chains : \E k \in DOMAIN chains[c] : chains[c][k].outcome = "ok"
    \/ \E i \in DOMAIN fetches : fetches[i].pc = "courses"

\* C20: the course-identifier query is issued only as part of the first
\* successful primary load: an invocation issues it only if no list query of
\* any invocation has succeeded before its own.
C20_CourseQueryOnFirstLoadOnly ==
    [][\A i \in DOMAIN fetches :
          (/\ fetches[i].pc = "main"
           /\ Len(fetches') = Len(fetches)
           /\ fetches'[i].pc = "courses") => ~PrimarySucceeded]_vars

\* C21: when the course-identifier query of an invocation fails (it resolves
\* with an error object or throws), the displayed collection is left as the
\* list query set it, the error flag is not set, no retry is scheduled, no
\* notification is shown and runDiagnostics is not called; the invocation
\* just ends.
C21_CourseFailureSwallowed ==
    [][\A i \in DOMAIN fetches : \A o \in Outcomes :
          (CourseQueryResponse(i, o) /\ o.kind # "ok") =>
              /\ slides' = slides
              /\ error' = error
              /\ timers' = timers
              /\ toasts' = toasts
              /\ diagnosticsRuns' = diagnosticsRuns
              /\ Len(fetches') = Len(fetches) - 1]_vars

\* both invocations of the first commit have ended after a failed course
\* query: the list is shown, nothing else happened
C21_Witness ==
    /\ mounted /\ fetches = <<>> /\ timers = {}
    /\ ~isLoaded /\ courses = <<>>
    /\ Len(chains) = 2
    /\ \A c \in DOMAIN chains : Len(chains[c]) = 1 /\ chains[c][1].outcome = "ok"
    /\ slides = Query(store, Closure) /\ slides # <<>>
    /\ error = NoError /\ diagnosticsRuns = 0
    /\ \A k \in ToastTitles : toasts[k] = 0

\* the notifications that end a runDiagnostics invocation
DiagnosticsNotices(ts) ==
    ts["Diagnostics Results"] + ts["Diagnostics Failed"] + ts["Authentication Error"]

\* a step in which a runDiagnostics invocation ends
DiagnosticsEnds == diag'.pc = "done" /\ (diag.pc # "done" \/ diag'.run > diag.run)

\* C22 as stated: a failure in a stage of runDiagnostics (an error result, a
\* negative status or an exception) lets the run go on to the next stage, and
\* every run ends with the summary notification.
C22_AsStated ==
    [][/\ \A o \in DiagnosticsOutcomes :
             /\ (GetSessionResponse(o) /\ o # "ok") => diag'.pc = "connection"
             /\ (ConnectionResponse(o) /\ o # "ok") => diag'.pc = "authStatus"
             /\ (AuthStatusResponse(o) /\ o # "ok") => diag'.pc = "direct"
             /\ (DirectTestResponse(o) /\ o # "ok") => diag'.pc = "rls"
       /\ DiagnosticsEnds =>
             toasts'["Diagnostics Results"] = toasts["Diagnostics Results"] + 1]_vars

\* C22: a failure of the direct read probe or of the delete-policy probe, and
\* a connectivity or auth check that reports a negative status, do not
\* prevent the later stages from running, and every run ends with a single
\* notification: the summary that aggregates the results of the stages, or,
\* without the later stages having run, "Authentication Error" when the
\* session check returns an error and "Diagnostics Failed" when the client is
\* missing or the session, connectivity or auth check throws.
C22_ProbeFailuresDoNotStopTheRun ==
    [][/\ \A o \in DiagnosticsOutcomes :
             /\ (ConnectionResponse(o) /\ o = "error") =>
                    (diag'.pc = "authStatus" /\ ~diag'.connected)
             /\ (AuthStatusResponse(o) /\ o = "error") =>
                    (diag'.pc = "direct" /\ ~diag'.authenticated)
             /\ DirectTestResponse(o) => diag'.pc = "rls"
             /\ (GetSessionResponse(o) /\ o = "error") =>
                    /\ diag'.pc = "done"
                    /\ toasts'["Authentication Error"] = toasts["Authentication Error"] + 1
             /\ (o = "throw" /\ (GetSessionResponse(o) \/ ConnectionResponse(o)
                                    \/ AuthStatusResponse(o))) =>
                    /\ diag'.pc = "done"
                    /\ toasts'["Diagnostics Failed"] = toasts["Diagnostics Failed"] + 1
       /\ \A o \in RlsOutcomes :
             RlsTestResponse(o) =>
                 /\ diag'.pc = "done"
                 /\ toasts'["Diagnostics Results"] = toasts["Diagnostics Results"] + 1
                 /\ (diag'.rlsStatus = "Success: Delete policy exists") <=> (o \in {"ok", "error"})
                 /\ diag'.connected = diag.connected
                 /\ diag'.authenticated = diag.authenticated
       /\ (RunDiagnostics /\ ~supabase) =>
             /\ diag'.pc = "done"
             /\ toasts'["Diagnostics Failed"] = toasts["Diagnostics Failed"] + 1
       /\ DiagnosticsNotices(toasts') =
             DiagnosticsNotices(toasts) + (IF DiagnosticsEnds THEN 1 ELSE 0)]_vars

\* a run in which the auth check reported a negative status and both probes
\* threw has ended with the summary
C22_Witness ==
    /\ diag.pc = "done" /\ diag.run = 1
    /\ diag.connected /\ ~diag.authenticated
    /\ diag.caught = {"direct", "rls"} /\ diag.rlsStatus = "Error testing RLS"
    /\ toasts["Diagnostics Results"] = 1 /\ DiagnosticsNotices(toasts) = 1

\* C23: when the deleteSlide invocation started by SlideCard.handleDelete has
\* finished, the deleting flag is false, and the confirmation dialog has been
\* closed exactly when the deletion succeeded: after a failed deletion it is
\* still open.
C23_DialogClosedOnSuccessOnly ==
    del.pc = "done" =>
        /\ ~del.isDeleting
        /\ del.isDialogOpen <=> (del.outcome # "deleted")

\* C24: whenever a fetchSlides invocation is waiting for the response of one
\* of its queries, the loading flag is true, also while several invocations
\* overlap.
C24_LoadingWhileInFlight == fetches # <<>> => isFetchingSlides

\* C25: after a deleteSlide invocation has finished, if the record of the
\* slide is still in the table and names a file, that file is still in the
\* bucket.
C25_NoDanglingRecord ==
    del.pc = "done" =>
        \A r \in store : (r.id = del.slideId /\ r.file_path # <<>>) => r.file_path \in blobs

CoursesShown(rows) == {rows[k].course_id : k \in DOMAIN rows}
CourseList(cs) == {cs[k] : k \in DOMAIN cs}

\* a step in which a fetchSlides invocation ends successfully
FetchSucceeds ==
    \E c \in DOMAIN chains :
        /\ Len(chains'[c]) = Len(chains[c]) + 1
        /\ chains'[c][Len(chains'[c])].outcome = "ok"

\* C26 as stated: after any successful fetchSlides the course list contains
\* every course identifier of the displayed collection.
C26_AsStated ==
    [][FetchSucceeds => CoursesShown(slides') \subseteq CourseList(courses')]_vars

\* C26: after a fetchSlides whose course-identifier query succeeded, the
\* course list contains every course identifier of the displayed collection;
\* no other step changes the course list.
C26_CoursesAfterCourseQuery ==
    [][/\ \A i \in DOMAIN fetches : \A o \in Outcomes :
             (CourseQueryResponse(i, o) /\ o.kind = "ok") =>
                 /\ CoursesShown(slides') \subseteq CourseList(courses')
                 /\ CourseList(courses') = {r.course_id : r \in store}
       /\ courses' # courses =>
             \E i \in DOMAIN fetches : \E o \in Outcomes :
                 CourseQueryResponse(i, o) /\ o.kind = "ok"]_vars

\* the slide uploaded to a new course is displayed and its course is in the
\* list, the course query having run after the upload
C26_Witness ==
    /\ up.pc = "done" /\ up.outcome = "ok"
    /\ fetches = <<>> /\ timers = {} /\ error = NoError
    /\ isLoaded
    /\ \E k \in DOMAIN slides : slides[k].file_path = UploadPath(up) /\ slides[k].course_id = <<"c", "3">>
    /\ <<"c", "3">> \in CourseList(courses)
    /\ CoursesShown(slides) \subseteq CourseList(courses)

\* C27: a fetchSlides failure that is surfaced (its test query or its list
\* query failed and no retry was scheduled) starts runDiagnostics exactly
\* once.
C27_OneDiagnosticsRunPerFailure ==
    [][\A i \in DOMAIN fetches : \A o \in Outcomes :
          ((TestQueryResponse(i, o) \/ MainQueryResponse(i, o))
             /\ o.kind # "ok" /\ timers' = timers)
              => diagnosticsRuns' = diagnosticsRuns + 1]_vars

====
